---- MODULE Spec2Model ----
(***************************************************************************)
(* A model of the TPU input validation pass,                              *)
(*   tensorflow/compiler/mlir/tensorflow/transforms/tpu_validate_inputs.cc *)
(*                                                                         *)
(* The graph under validation is the read-only variable g.  The pass is   *)
(* the state machine  Collecting -> Checking -> {Succeeded, Failed}:      *)
(* one step per callback of the first walk (metadata ops), one step per   *)
(* island of the second walk, one final step for the enclosing ops and    *)
(* the verdict.  Every check function of the file is an operator that     *)
(* returns  [ok, d, c]:  its boolean result, the diagnostics it emitted   *)
(* and the calls it made (a history used by the properties only).         *)
(***************************************************************************)
EXTENDS Integers, Sequences, FiniteSets, TLC

VARIABLES g, pc, metadata_map, num_metadata, success, collected, visited, diags, calls, failed

vars == <<g, pc, metadata_map, num_metadata, success, collected, visited, diags, calls, failed>>

(***************************************************************************)
(* Bounds of the model.                                                    *)
(***************************************************************************)
MaxArity == 2
MaxReplicas == 2
MaxCores == 2

(***************************************************************************)
(* Attribute values.  NoAttr stands for "the op has no such attribute".    *)
(***************************************************************************)
NoAttr == "<none>"
DevTpu == "/device:TPU:0"
DevCpu == "/device:CPU:0"

\* absl::StrContains(device, TF::kTpuDevice) on the device strings of the model.
StrContainsTpu(device) == device \in {DevTpu}

(***************************************************************************)
(* Op kinds (operation names).                                             *)
(***************************************************************************)
kModule == "builtin.module"
kGraph == "tf_executor.graph"
kReturn == "func.return"
kFunc == "func.func"
kYield == "tf_executor.yield"
kIsland == "tf_executor.island"
kFetch == "tf_executor.fetch"
kRepIn == "tf.TPUReplicatedInput"
kRepOut == "tf.TPUReplicatedOutput"
kPartIn == "tf.TPUPartitionedInput"
kPartInV2 == "tf.TPUPartitionedInputV2"
kPartOut == "tf.TPUPartitionedOutput"
kPartOutV2 == "tf.TPUPartitionedOutputV2"
kMetadata == "tf.TPUReplicateMetadata"
kConst == "tf.Const"
kWhile == "tf.While"
kAssert == "tf.Assert"
kIdentity == "tf.Identity"
kStatefulCall == "tf.StatefulPartitionedCall"
kTensorArray == "tf.TensorArrayV3"
kSetDynDim == "tf.XlaSetDynamicDimensionSize"
kAdd == "tf.AddV2"
kUnregistered == "custom.unregistered"

\* The static set `ops` of IsTpuRegularOp.
TpuRegularOps_set ==
    {kModule, kGraph, kReturn, kFunc, kYield, kIsland, kRepIn, kRepOut,
     kPartIn, kPartInV2, kPartOut, kPartOutV2, kMetadata, kFetch}

\* The static set `ops` of IsIntersectionXlaNonXlaOps.
IntersectionOps_set ==
    {kConst, kWhile, kAssert, kIdentity, kStatefulCall, kTensorArray, kSetDynDim}

\* op->getRegisteredInfo() is non-null for these names.
RegisteredKinds == TpuRegularOps_set \cup IntersectionOps_set \cup {kAdd}

(***************************************************************************)
(* Types.  A type is a record: whether its element type is a resource      *)
(* type, and what tensorflow::TypeValidForXLA answers for it.              *)
(***************************************************************************)
TyF32 == [name |-> "f32", resource |-> FALSE, xla |-> TRUE]
TyString == [name |-> "string", resource |-> FALSE, xla |-> FALSE]
TyResource == [name |-> "resource", resource |-> TRUE, xla |-> FALSE]

TypeValidForXLA(type) == type.xla

IsResourceType(type) == type.resource

(***************************************************************************)
(* The graph.  g.ops maps an op id to the op wrapped in island id.         *)
(* An op reference is <<"op", i>>, or <<"yield", i>> / <<"island", i>> for *)
(* the terminator and the wrapper of island i, or one of the enclosing     *)
(* ops.  operands is the set of islands whose result the op uses.          *)
(***************************************************************************)
MkOp(kind, attr, arity, packed, device, outside, rtype, operands) ==
    [kind |-> kind, attr |-> attr, arity |-> arity, packed |-> packed,
     device |-> device, outside |-> outside, rtype |-> rtype,
     operands |-> operands,
     num_replicas |-> 0, num_cores_per_replica |-> 0,
     allow_soft_placement |-> FALSE]

MkMeta(cluster, nr, nc, soft) ==
    [kind |-> kMetadata, attr |-> cluster, arity |-> 0, packed |-> FALSE,
     device |-> NoAttr, outside |-> FALSE, rtype |-> TyF32, operands |-> {},
     num_replicas |-> nr, num_cores_per_replica |-> nc,
     allow_soft_placement |-> soft]

Ids == DOMAIN g.ops

MetaIds == {i \in Ids : g.ops[i].kind = kMetadata}

DataIds == Ids \ MetaIds

OpRef(i) == <<"op", i>>

EnclosingOps == <<"fetch", "graph", "return", "func", "module">>

IsWrapped(op) == op[1] = "op"

OpName(op) ==
    CASE op[1] = "op" -> g.ops[op[2]].kind
      [] op[1] = "yield" -> kYield
      [] op[1] = "island" -> kIsland
      [] op[1] = "fetch" -> kFetch
      [] op[1] = "graph" -> kGraph
      [] op[1] = "return" -> kReturn
      [] op[1] = "func" -> kFunc
      [] op[1] = "module" -> kModule

\* op->getAttr(TF::kTpuReplicateAttr); NoAttr when op->hasAttr is false.
TpuReplicateAttr(op) == IF IsWrapped(op) THEN g.ops[op[2]].attr ELSE NoAttr

DeviceAttr(op) == IF IsWrapped(op) THEN g.ops[op[2]].device ELSE NoAttr

HasOutsideCompilationAttr(op) == IsWrapped(op) /\ g.ops[op[2]].outside

Arity(op) == g.ops[op[2]].arity

IsPacked(op) == g.ops[op[2]].packed

\* The types of the op's operands and results.
OperandTypes(op) ==
    IF IsWrapped(op) THEN {g.ops[p].rtype : p \in g.ops[op[2]].operands} ELSE {}

ResultTypes(op) == IF IsWrapped(op) THEN {g.ops[op[2]].rtype} ELSE {}

(***************************************************************************)
(* OpClassifier                                                            *)
(***************************************************************************)
IsTpuRegularOp(op) ==
    IF OpName(op) \notin RegisteredKinds THEN TRUE
    ELSE OpName(op) \notin TpuRegularOps_set

IsIntersectionXlaNonXlaOps(op) ==
    IF OpName(op) \notin RegisteredKinds THEN TRUE
    ELSE OpName(op) \notin IntersectionOps_set

(***************************************************************************)
(* GraphNeighborQuery.  ord is the order in which the IR enumerates the    *)
(* islands (operand order, use-list order): a sequence over DataIds.       *)
(***************************************************************************)
InOrder(S, ord) == SelectSeq(ord, LAMBDA i : i \in S)

RECURSIVE Flatten(_)
Flatten(ss) == IF ss = <<>> THEN <<>> ELSE Head(ss) \o Flatten(Tail(ss))

\* The users of the results of the island that wraps op.
GetSuccessors(op, ord) ==
    LET users == {c \in DataIds : op[2] \in g.ops[c].operands}
        s == InOrder(users, ord)
    IN  [k \in 1..Len(s) |-> OpRef(s[k])]

\* For every operand with a defining op (an island): the walk of that island,
\* post-order: the wrapped op, the yield, the island.
GetPredecessors(op, ord) ==
    LET s == InOrder(g.ops[op[2]].operands, ord)
    IN  Flatten([k \in 1..Len(s) |->
                   << <<"op", s[k]>>, <<"yield", s[k]>>, <<"island", s[k]>> >>])

(***************************************************************************)
(* Results of the check functions.                                         *)
(***************************************************************************)
Pass == [ok |-> TRUE, d |-> {}, c |-> {}]

Fail(diag) == [ok |-> FALSE, d |-> {diag}, c |-> {}]

Warn(diag) == [ok |-> TRUE, d |-> {diag}, c |-> {}]

\* r1 then, unless r1 returned false, r2.
Then(r1, r2) ==
    IF r1.ok THEN [ok |-> r2.ok, d |-> r1.d \cup r2.d, c |-> r1.c \cup r2.c]
    ELSE r1

Called(call, r) == [ok |-> r.ok, d |-> r.d, c |-> r.c \cup {call}]

(***************************************************************************)
(* Diagnostics.  sev, op (the op the diagnostic is attached to) and msg,   *)
(* then the values the message prints.                                     *)
(***************************************************************************)
ArityDiag(op, msg, label, expected, arity) ==
    [sev |-> "error", op |-> op, msg |-> msg, label |-> label,
     expected |-> expected, arity |-> arity]

(***************************************************************************)
(* ClusterIOValidator                                                      *)
(***************************************************************************)
\* errormsg() is "<rep name> op has successor|predecessor op <op name> with error: ".
CheckTpuReplicateAttr(op, attr, repname, dir) ==
    IF TpuReplicateAttr(op) = NoAttr
    THEN Fail([sev |-> "error", op |-> op, msg |-> "missing _tpu_replicate attr",
               rep |-> repname, dir |-> dir])
    ELSE IF TpuReplicateAttr(op) # attr
    THEN Fail([sev |-> "error", op |-> op, msg |-> "invalid _tpu_replicate attr",
               rep |-> repname, dir |-> dir, attr |-> attr,
               actual |-> TpuReplicateAttr(op)])
    ELSE Pass

\* The arity test at the head of ValidateReplicatedInput, with the packed
\* flag ignored.
RepInArityIgnoringPacked(rep, num_replicas) ==
    IF Arity(rep) # num_replicas
    THEN Fail(ArityDiag(rep, "number of inputs inconsistent",
                        "num_replicas", num_replicas, Arity(rep)))
    ELSE Pass

\* The arity test at the head of ValidateReplicatedInput.
RepInArity(rep, num_replicas) ==
    IF IsPacked(rep) /\ Arity(rep) # 1
    THEN Fail(ArityDiag(rep, "packed with number of inputs not 1",
                        "num_replicas", num_replicas, Arity(rep)))
    ELSE IF ~IsPacked(rep) /\ Arity(rep) # num_replicas
    THEN Fail(ArityDiag(rep, "number of inputs inconsistent",
                        "num_replicas", num_replicas, Arity(rep)))
    ELSE Pass

\* RepInSuccessorItem without the attribute check.
RepInSuccessorItemSkipped(rep, attr, succ) == Pass

RepInSuccessorItem(rep, attr, succ) ==
    IF ~IsTpuRegularOp(succ) THEN Pass
    ELSE CheckTpuReplicateAttr(succ, attr, OpName(rep), "successor")

\* for (auto& succ : GetSuccessors(rep)) { ... return false; }  from succs[k] on.
RECURSIVE RepInSuccessors(_, _, _, _)
RepInSuccessors(rep, attr, succs, k) ==
    IF k > Len(succs) THEN Pass
    ELSE Then(RepInSuccessorItem(rep, attr, succs[k]), RepInSuccessors(rep, attr, succs, k + 1))

ValidateReplicatedInput(rep, num_replicas, attr, ord) ==
    Then(RepInArity(rep, num_replicas),
         RepInSuccessors(rep, attr, GetSuccessors(rep, ord), 1))

RepOutPredecessorItem(rep, attr, pred) ==
    IF ~IsTpuRegularOp(pred) THEN Pass
    ELSE CheckTpuReplicateAttr(pred, attr, OpName(rep), "predecessor")

RECURSIVE RepOutPredecessors(_, _, _, _)
RepOutPredecessors(rep, attr, preds, k) ==
    IF k > Len(preds) THEN Pass
    ELSE Then(RepOutPredecessorItem(rep, attr, preds[k]), RepOutPredecessors(rep, attr, preds, k + 1))

ValidateReplicatedOutput(rep, num_replicas, attr, ord) ==
    Then(IF Arity(rep) # num_replicas
         THEN Fail(ArityDiag(rep, "number of outputs inconsistent",
                             "num_replicas", num_replicas, Arity(rep)))
         ELSE Pass,
         RepOutPredecessors(rep, attr, GetPredecessors(rep, ord), 1))

ValidatePartitionedInput(rep, num_cores_per_replica) ==
    IF Arity(rep) # num_cores_per_replica
    THEN Fail(ArityDiag(rep, "number of inputs inconsistent",
                        "num_cores_per_replica", num_cores_per_replica, Arity(rep)))
    ELSE Pass

ValidatePartitionedInputV2(rep, num_cores_per_replica) ==
    IF IsPacked(rep) /\ Arity(rep) # 1
    THEN Fail(ArityDiag(rep, "packed with number of inputs not 1",
                        "num_cores_per_replicas", num_cores_per_replica, Arity(rep)))
    ELSE IF ~IsPacked(rep) /\ Arity(rep) # num_cores_per_replica
    THEN Fail(ArityDiag(rep, "number of inputs inconsistent",
                        "num_cores_per_replica", num_cores_per_replica, Arity(rep)))
    ELSE Pass

ValidatePartitionedOutput(rep, num_cores_per_replica) ==
    IF Arity(rep) # num_cores_per_replica
    THEN Fail(ArityDiag(rep, "number of outputs inconsistent",
                        "num_cores_per_replica", num_cores_per_replica, Arity(rep)))
    ELSE Pass

\* CheckReplicatedIOOp against the metadata of the cluster that the replication
\* op itself names, when it names one that has metadata.
CheckReplicatedIOOpOwnCluster(op, metadata, parent, ord) ==
    LET own == IF TpuReplicateAttr(op) \in DOMAIN metadata_map
               THEN metadata_map[TpuReplicateAttr(op)] ELSE metadata
        num_replicas == g.ops[own].num_replicas
        num_cores_per_replica == g.ops[own].num_cores_per_replica
        name == OpName(op)
        r == CASE name = kRepIn ->
                    ValidateReplicatedInput(op, num_replicas, g.ops[own].attr, ord)
               [] name = kPartIn ->
                    ValidatePartitionedInput(op, num_cores_per_replica)
               [] OTHER -> Pass
    IN  Called([fn |-> "CheckReplicatedIOOp", op |-> op, parent |-> parent,
                md |-> own], r)

\* metadata is the id of the metadata op; the dyn_casts are tests of the op name.
CheckReplicatedIOOp(op, metadata, parent, ord) ==
    LET num_replicas == g.ops[metadata].num_replicas
        num_cores_per_replica == g.ops[metadata].num_cores_per_replica
        tpu_replicate_attr == g.ops[metadata].attr
        name == OpName(op)
        r == CASE name = kRepIn ->
                    ValidateReplicatedInput(op, num_replicas, tpu_replicate_attr, ord)
               [] name = kRepOut ->
                    ValidateReplicatedOutput(op, num_replicas, tpu_replicate_attr, ord)
               [] name = kPartIn ->
                    ValidatePartitionedInput(op, num_cores_per_replica)
               [] name = kPartInV2 ->
                    ValidatePartitionedInputV2(op, num_cores_per_replica)
               [] name \in {kPartOut, kPartOutV2} ->
                    ValidatePartitionedOutput(op, num_cores_per_replica)
               [] OTHER -> Pass
    IN  Called([fn |-> "CheckReplicatedIOOp", op |-> op, parent |-> parent,
                md |-> metadata], r)

(***************************************************************************)
(* ClusterBoundaryValidator                                                *)
(***************************************************************************)
\* CheckClusterSuccessors that returns true for every successor.
CheckClusterSuccessorsLenient(op, cluster, parent) ==
    Called([fn |-> "CheckClusterSuccessors", op |-> op, parent |-> parent, md |-> 0],
           IF TpuReplicateAttr(op) \in {NoAttr, "", cluster} THEN Pass
           ELSE Warn([sev |-> "warning", op |-> op,
                      msg |-> "mismatch clusters tpu_replicate attr",
                      parent |-> OpName(parent), cluster |-> cluster,
                      cluster_succ |-> TpuReplicateAttr(op)]))

\* cluster_succ is "" when the op has no attribute (or an empty one).
CheckClusterSuccessors(op, cluster, parent) ==
    LET cluster_succ == IF TpuReplicateAttr(op) # NoAttr THEN TpuReplicateAttr(op) ELSE ""
        r == IF cluster_succ = ""
             THEN Warn([sev |-> "warning", op |-> op,
                        msg |-> "has successor as non cluster op",
                        parent |-> OpName(parent), cluster |-> cluster])
             ELSE IF cluster # cluster_succ
             THEN Fail([sev |-> "error", op |-> op,
                        msg |-> "mismatch clusters tpu_replicate attr",
                        parent |-> OpName(parent), cluster |-> cluster,
                        cluster_succ |-> cluster_succ])
             ELSE Pass
    IN  Called([fn |-> "CheckClusterSuccessors", op |-> op, parent |-> parent,
                md |-> 0], r)

CheckNonClusterSuccessors(op, parent) ==
    IF ~IsTpuRegularOp(op)
    THEN IF OpName(op) = kRepOut
         THEN Fail([sev |-> "error", op |-> op, msg |-> "has invalid successor op",
                    parent |-> OpName(parent)])
         ELSE Pass
    ELSE Pass

\* CheckNonClusterPredecessors testing for the replicated-output op.
CheckNonClusterPredecessorsOfOutput(op, parent) ==
    IF ~IsTpuRegularOp(op)
    THEN IF OpName(op) = kRepOut
         THEN Fail([sev |-> "error", op |-> op, msg |-> "has invalid predecessor op",
                    parent |-> OpName(parent)])
         ELSE Pass
    ELSE Pass

CheckNonClusterPredecessors(op, parent) ==
    IF ~IsTpuRegularOp(op)
    THEN IF OpName(op) = kRepIn
         THEN Fail([sev |-> "error", op |-> op, msg |-> "has invalid predecessor op",
                    parent |-> OpName(parent)])
         ELSE Pass
    ELSE Pass

\* cx is the state of CheckOpsClusterIO before its loops:
\* [op, mm, is_cluster_op, cluster, has_cluster_metadata, ord].
PredecessorItem(cx, pred) ==
    Then(IF cx.is_cluster_op /\ ~IsTpuRegularOp(pred) /\ cx.has_cluster_metadata
         THEN CheckReplicatedIOOp(pred, cx.mm[cx.cluster], cx.op, cx.ord)
         ELSE Pass,
         IF ~cx.is_cluster_op THEN CheckNonClusterPredecessors(pred, cx.op) ELSE Pass)

\* SuccessorItem with the successor check run only for clusters with metadata.
SuccessorItemNeedsMetadata(cx, succ) ==
    Then(IF cx.is_cluster_op /\ ~IsTpuRegularOp(succ) /\ cx.has_cluster_metadata
         THEN CheckReplicatedIOOp(succ, cx.mm[cx.cluster], cx.op, cx.ord)
         ELSE Pass,
    Then(IF cx.is_cluster_op /\ IsTpuRegularOp(succ) /\ cx.has_cluster_metadata
         THEN CheckClusterSuccessors(succ, cx.cluster, cx.op)
         ELSE Pass,
         IF ~cx.is_cluster_op THEN CheckNonClusterSuccessors(succ, cx.op) ELSE Pass))

SuccessorItem(cx, succ) ==
    Then(IF cx.is_cluster_op /\ ~IsTpuRegularOp(succ) /\ cx.has_cluster_metadata
         THEN CheckReplicatedIOOp(succ, cx.mm[cx.cluster], cx.op, cx.ord)
         ELSE Pass,
    Then(IF cx.is_cluster_op /\ IsTpuRegularOp(succ)
         THEN CheckClusterSuccessors(succ, cx.cluster, cx.op)
         ELSE Pass,
         IF ~cx.is_cluster_op THEN CheckNonClusterSuccessors(succ, cx.op) ELSE Pass))

\* for (auto pred : GetPredecessors(op)) { ... return false; }  from preds[k] on.
RECURSIVE PredecessorLoop(_, _, _)
PredecessorLoop(cx, preds, k) ==
    IF k > Len(preds) THEN Pass
    ELSE Then(PredecessorItem(cx, preds[k]), PredecessorLoop(cx, preds, k + 1))

\* The successor loop with the result of the last successor as its result.
SuccessorLoopLastResult(cx, succs, k) ==
    IF k > Len(succs) THEN Pass
    ELSE LET rs == [j \in k..Len(succs) |-> SuccessorItem(cx, succs[j])]
         IN  [ok |-> rs[Len(succs)].ok,
              d |-> UNION {rs[j].d : j \in k..Len(succs)},
              c |-> UNION {rs[j].c : j \in k..Len(succs)}]

\* for (auto succ : GetSuccessors(op)) { ... return false; }  from succs[k] on.
RECURSIVE SuccessorLoop(_, _, _)
SuccessorLoop(cx, succs, k) ==
    IF k > Len(succs) THEN Pass
    ELSE Then(SuccessorItem(cx, succs[k]), SuccessorLoop(cx, succs, k + 1))

\* mm is the metadata map: a function from the cluster names collected to
\* the metadata op of each.
CheckOpsClusterIO(op, mm, ord) ==
    LET hasAttr == TpuReplicateAttr(op) # NoAttr
        cluster == IF hasAttr THEN TpuReplicateAttr(op) ELSE ""
    IN  IF hasAttr /\ cluster = ""
        THEN Fail([sev |-> "error", op |-> op, msg |-> "empty _tpu_replicate attr"])
        ELSE LET cx == [op |-> op, mm |-> mm, is_cluster_op |-> hasAttr,
                        cluster |-> cluster,
                        has_cluster_metadata |-> cluster \in DOMAIN mm, ord |-> ord]
             IN  Then(PredecessorLoop(cx, GetPredecessors(op, ord), 1),
                      SuccessorLoop(cx, GetSuccessors(op, ord), 1))

(***************************************************************************)
(* TypeConstraintValidator                                                 *)
(***************************************************************************)
InTypeMustBeNonXLA(type) == ~IsResourceType(type) /\ ~TypeValidForXLA(type)

IsMustNotBeXlaOp(op) ==
    \/ \E t \in OperandTypes(op) : InTypeMustBeNonXLA(t)
    \/ \E t \in ResultTypes(op) : ~TypeValidForXLA(t)

IsMustBeXlaOp(op, mm) ==
    IF TpuReplicateAttr(op) = NoAttr THEN FALSE
    ELSE IF TpuReplicateAttr(op) \notin DOMAIN mm THEN FALSE
    ELSE IF ~g.ops[mm[TpuReplicateAttr(op)]].allow_soft_placement
            /\ ~HasOutsideCompilationAttr(op)
    THEN TRUE
    ELSE IF DeviceAttr(op) = NoAttr THEN FALSE
    ELSE StrContainsTpu(DeviceAttr(op))

ValidateIntersectionXlaNonXlaOps(op, mm) ==
    IF OpName(op) \in {kMetadata, kRepIn, kRepOut, kPartIn, kPartInV2, kPartOut, kPartOutV2}
    THEN Pass
    ELSE IF IsMustBeXlaOp(op, mm) /\ IsMustNotBeXlaOp(op)
    THEN Fail([sev |-> "error", op |-> op,
               msg |-> "found invalid op. Can't be both xla and non-xla"])
    ELSE Pass

(***************************************************************************)
(* PassDriver                                                              *)
(***************************************************************************)
\* The callback of the second walk on one op:
\*   if (IsTpuRegularOp(op)) success &= CheckOpsClusterIO(op, metadata_map);
\*   if (IsIntersectionXlaNonXlaOps(op)) success &= ValidateIntersection...(op, ...);
\* f is the set of the checks that returned false.
NoCheck == [ok |-> TRUE, d |-> {}, c |-> {}, f |-> {}]

\* The result r of the check fn on op, as the callback sees it.
Checked(fn, op, r) ==
    [ok |-> r.ok, d |-> r.d,
     c |-> r.c \cup {[fn |-> fn, op |-> op, parent |-> op, md |-> 0]},
     f |-> IF r.ok THEN {} ELSE {[fn |-> fn, op |-> op]}]

\* success &= ... : both operands are evaluated.
AndAlso(r1, r2) ==
    [ok |-> r1.ok /\ r2.ok, d |-> r1.d \cup r2.d, c |-> r1.c \cup r2.c,
     f |-> r1.f \cup r2.f]

CheckCallback(op, mm, ord) ==
    AndAlso(IF IsTpuRegularOp(op)
            THEN Checked("CheckOpsClusterIO", op, CheckOpsClusterIO(op, mm, ord))
            ELSE NoCheck,
            IF IsIntersectionXlaNonXlaOps(op)
            THEN Checked("ValidateIntersectionXlaNonXlaOps", op,
                         ValidateIntersectionXlaNonXlaOps(op, mm))
            ELSE NoCheck)

\* The callback on each op of a sequence, in order; success is AND-reduced
\* and no callback is skipped.
RECURSIVE WalkOps(_, _, _)
WalkOps(ops, mm, ord) ==
    IF ops = <<>> THEN NoCheck
    ELSE AndAlso(CheckCallback(Head(ops), mm, ord), WalkOps(Tail(ops), mm, ord))

\* The neighbour lists the checks enumerate: the operands of an op, the users
\* of an island.
NeighbourLists ==
    {g.ops[c].operands : c \in DataIds}
    \cup {{c \in DataIds : p \in g.ops[c].operands} : p \in DataIds}

AllOrders(S) ==
    {s \in [1..Cardinality(S) -> S] : \A a, b \in 1..Cardinality(S) : a # b => s[a] # s[b]}

RECURSIVE Ascending(_)
Ascending(S) ==
    IF S = {} THEN <<>>
    ELSE LET m == CHOOSE x \in S : \A y \in S : x <= y
         IN  <<m>> \o Ascending(S \ {m})

Reverse(s) == [k \in 1..Len(s) |-> s[Len(s) + 1 - k]]

\* The enumeration orders of the islands: enough of them to give every
\* neighbour list each of its orders (two orders do when no list has more
\* than two entries).
Orders ==
    IF \A L \in NeighbourLists : Cardinality(L) <= 2
    THEN {Ascending(DataIds), Reverse(Ascending(DataIds))}
    ELSE AllOrders(DataIds)

MapPut(mm, key, val) ==
    [k \in DOMAIN mm \cup {key} |-> IF k = key THEN val ELSE mm[k]]

\* First walk: the callback on one TPUReplicateMetadata op.
CanCollect(m) == pc = "Collecting" /\ m \in MetaIds \ collected

CanStartChecking == pc = "Collecting" /\ collected = MetaIds

CanWalkIsland(i) == pc = "Checking" /\ i \in Ids \ visited

CanFinish == pc = "Checking" /\ visited = Ids

Collect(m) ==
    /\ CanCollect(m)
    /\ num_metadata' = num_metadata + 1
    /\ metadata_map' = MapPut(metadata_map, g.ops[m].attr, m)
    /\ collected' = collected \cup {m}
    /\ UNCHANGED <<g, pc, success, visited, diags, calls, failed>>

\* The first walk has visited every op.
StartChecking ==
    /\ CanStartChecking
    /\ pc' = "Checking"
    /\ UNCHANGED <<g, metadata_map, num_metadata, success, collected, visited, diags,
                   calls, failed>>

\* The effect of the callbacks with result r on the state of the pass.
Record(r) ==
    /\ success' = (success /\ r.ok)
    /\ diags' = diags \cup r.d
    /\ calls' = calls \cup r.c
    /\ failed' = failed \cup r.f

\* WalkIsland with  success = success && Check(op)  in the callback: no check
\* is run once success is false.
WalkIslandShortCircuit(i) ==
    /\ CanWalkIsland(i)
    /\ \E ord \in Orders :
         Record(IF success
                THEN WalkOps(<< <<"op", i>>, <<"yield", i>>, <<"island", i>> >>,
                             metadata_map, ord)
                ELSE NoCheck)
    /\ visited' = visited \cup {i}
    /\ UNCHANGED <<g, pc, metadata_map, num_metadata, collected>>

\* Second walk, one island: the wrapped op, its terminator, the island.
WalkIsland(i) ==
    /\ CanWalkIsland(i)
    /\ \E ord \in Orders :
         Record(WalkOps(<< <<"op", i>>, <<"yield", i>>, <<"island", i>> >>,
                        metadata_map, ord))
    /\ visited' = visited \cup {i}
    /\ UNCHANGED <<g, pc, metadata_map, num_metadata, collected>>

\* End of the second walk (the ops that enclose the islands come last in the
\* post-order), then  if (!success) signalPassFailure();
Finish ==
    /\ CanFinish
    /\ Record(WalkOps([k \in 1..Len(EnclosingOps) |-> <<EnclosingOps[k], 0>>],
                      metadata_map, <<>>))
    /\ pc' = IF success' THEN "Succeeded" ELSE "Failed"
    /\ UNCHANGED <<g, metadata_map, num_metadata, collected, visited>>

(***************************************************************************)
(* The graphs of the model.  Islands 1, 2, 3 hold the data ops, the        *)
(* islands after them the metadata ops.                                    *)
(***************************************************************************)
Clusters == {"c1", "c2"}

Arities == 1..MaxArity

Plain(kind, attr, operands) ==
    MkOp(kind, attr, Cardinality(operands), FALSE, NoAttr, FALSE, TyF32, operands)

Special(kind, arity, packed, operands) ==
    MkOp(kind, NoAttr, arity, packed, NoAttr, FALSE, TyF32, operands)

PlainOps(attrs, operands) == {Plain(kAdd, a, operands) : a \in attrs}

InputOps(operands) ==
    {Special(k, n, p, operands) : k \in {kRepIn, kPartInV2}, n \in Arities, p \in BOOLEAN}
    \cup {Special(kPartIn, n, FALSE, operands) : n \in Arities}

OutputOps(operands) ==
    {Special(k, n, FALSE, operands) : k \in {kRepOut, kPartOut, kPartOutV2}, n \in Arities}

Metas(clusters, softs) ==
    {MkMeta(c, nr, nc, s) : c \in clusters, nr \in 1..MaxReplicas, nc \in 1..MaxCores,
                            s \in softs}

AnyAttr == {NoAttr, "", "c1", "c2"}

RepOps(operands) ==
    {Special(kRepIn, n, p, operands) : n \in Arities, p \in BOOLEAN}
    \cup {Special(kRepOut, n, FALSE, operands) : n \in Arities}

PartOps(operands) ==
    {Special(kPartInV2, n, p, operands) : n \in Arities, p \in BOOLEAN}
    \cup {Special(k, n, FALSE, operands) : k \in {kPartIn, kPartOut, kPartOutV2},
                                            n \in Arities}

\* 1 -> 2 -> 3, around a plain op: replicated ops, or partitioned ops.
ChainRepOps ==
    {<<a, b, c>> : a \in PlainOps(AnyAttr \ {""}, {}) \cup RepOps({}),
                   b \in PlainOps(AnyAttr, {1}),
                   c \in PlainOps(AnyAttr \ {""}, {2}) \cup RepOps({2})}

ChainPartOps ==
    {<<a, b, c>> : a \in PartOps({}),
                   b \in PlainOps(AnyAttr \ {""}, {1}),
                   c \in PlainOps(AnyAttr \ {""}, {2}) \cup PartOps({2})}

\* 1 -> 2, 1 -> 3
FanOutOps ==
    {<<a, b, c>> : a \in PlainOps(AnyAttr \ {""}, {}) \cup InputOps({}),
                   b \in PlainOps(AnyAttr \ {""}, {1}),
                   c \in PlainOps(AnyAttr, {1}) \cup {Plain(kUnregistered, "c1", {1})}}

\* 1 -> 3, 2 -> 3
FanInOps ==
    {<<a, b, c>> : a \in PlainOps(AnyAttr \ {""}, {}),
                   b \in PlainOps(AnyAttr \ {""}, {}),
                   c \in PlainOps(AnyAttr \ {""}, {1, 2}) \cup OutputOps({1, 2})}

RepGraphOps == ChainRepOps \cup FanOutOps \cup FanInOps

\* No metadata op, or one for cluster c1.
IOGraphs ==
    {[ops |-> o] : o \in RepGraphOps \cup ChainPartOps}
    \cup {[ops |-> Append(o, MkMeta("c1", nr, 1, TRUE))] :
            o \in RepGraphOps, nr \in 1..MaxReplicas}
    \cup {[ops |-> Append(o, MkMeta("c1", 1, nc, TRUE))] :
            o \in ChainPartOps, nc \in 1..MaxCores}

\* Two metadata ops, for the same cluster or for two.
TwoMetaGraphs ==
    {[ops |-> <<a, b, c, m, n>>] :
        a \in {MkOp(k, "c2", x, FALSE, NoAttr, FALSE, TyF32, {}) :
                 k \in {kRepIn, kPartIn}, x \in Arities},
        b \in PlainOps(Clusters, {1}),
        c \in PlainOps(AnyAttr \ {""}, {2}),
        m \in {MkMeta("c1", nr, 1, TRUE) : nr \in 1..MaxReplicas},
        n \in Metas(Clusters, {TRUE})}

\* Types, devices and outside compilation: 1 -> 2, with or without metadata.
TypedOp(kind, attr, device, outside, rtype, operands) ==
    MkOp(kind, attr, Cardinality(operands), FALSE, device, outside, rtype, operands)

Types == {TyF32, TyString, TyResource}

TypeOps ==
    {<<a, b>> :
        a \in {TypedOp(kAdd, NoAttr, NoAttr, FALSE, t, {}) : t \in Types},
        b \in {TypedOp(k, at, dv, oc, t, {1}) :
                 k \in {kAdd, kIdentity, kWhile, kUnregistered},
                 at \in {NoAttr, "c1", "c2"}, dv \in {NoAttr, DevTpu, DevCpu},
                 oc \in BOOLEAN, t \in Types}}

TypeGraphs ==
    {[ops |-> o] : o \in TypeOps}
    \cup {[ops |-> Append(o, MkMeta("c1", 1, 1, s))] : o \in TypeOps, s \in BOOLEAN}

Graphs == IOGraphs \cup TwoMetaGraphs \cup TypeGraphs

Init ==
    /\ g \in Graphs
    /\ pc = "Collecting"
    /\ metadata_map = <<>>
    /\ num_metadata = 0
    /\ success = TRUE
    /\ collected = {}
    /\ visited = {}
    /\ diags = {}
    /\ calls = {}
    /\ failed = {}

Next ==
    \/ \E m \in MetaIds : Collect(m)
    \/ StartChecking
    \/ \E i \in Ids : WalkIsland(i)
    \/ Finish

Spec == Init /\ [][Next]_vars

(***************************************************************************)
(* Vocabulary of the properties.                                           *)
(***************************************************************************)
Terminal == pc \in {"Succeeded", "Failed"}

Users(i) == {c \in DataIds : i \in g.ops[c].operands}

Producers(i) == g.ops[i].operands

KindOf(i) == g.ops[i].kind

AttrOf(i) == g.ops[i].attr

\* A plain node: not in the structural set.
PlainIds == {i \in DataIds : KindOf(i) \notin TpuRegularOps_set}

\* A plain node that carries a non-empty cluster identifier.
ClusterIds == {i \in PlainIds : AttrOf(i) \notin {NoAttr, ""}}

ReplicationKinds == {kRepIn, kRepOut, kPartIn, kPartInV2, kPartOut, kPartOutV2}

IsArityDiag(d) == "label" \in DOMAIN d

IOCall(i) == [fn |-> "CheckOpsClusterIO", op |-> OpRef(i), parent |-> OpRef(i), md |-> 0]

IOFailed(i) == [fn |-> "CheckOpsClusterIO", op |-> OpRef(i)]

ErrorDiags == {d \in diags : d.sev = "error"}

(***************************************************************************)
(* C9.  The driver goes Collecting -> Checking -> {Succeeded, Failed} and  *)
(* always reaches a terminal state: every step lowers the number of        *)
(* callbacks and phase changes still to come, and in every state that is   *)
(* not terminal the guard of some step holds (the rest of each step only   *)
(* assigns).  In a terminal state every island has                         *)
(* been visited and every plain op has had its cluster-IO check, whatever  *)
(* earlier checks returned, and the state is Failed exactly when some      *)
(* per-node check returned false.                                          *)
(***************************************************************************)
StepsLeft ==
    Cardinality(MetaIds \ collected) + Cardinality(Ids \ visited)
    + (CASE pc = "Collecting" -> 2 [] pc = "Checking" -> 1 [] OTHER -> 0)

C9_Transitions ==
    /\ pc = "Collecting" => pc' \in {"Collecting", "Checking"}
    /\ pc = "Checking" => pc' \in {"Checking", "Succeeded", "Failed"}
    /\ ~Terminal
    /\ StepsLeft' < StepsLeft

C9_AtEnd ==
    Terminal =>
        /\ visited = Ids
        /\ collected = MetaIds
        /\ \A i \in PlainIds : IOCall(i) \in calls
        /\ pc = "Failed" <=> failed # {}

StepPossible ==
    \/ \E m \in MetaIds : CanCollect(m)
    \/ CanStartChecking
    \/ \E i \in Ids : CanWalkIsland(i)
    \/ CanFinish

C9_Driver == [][C9_Transitions]_vars /\ [](C9_AtEnd /\ (Terminal \/ StepPossible))

\* Two per-node checks returned false in one run: the second was run after
\* the first had failed.
C9_Witness == pc = "Failed" /\ Cardinality(failed) >= 2

(***************************************************************************)
(* C6.  Replicated-input arity rule.  Whenever a replicated-input node has *)
(* been validated against a metadata op with num_replicas = N: unpacked    *)
(* with N operands, or packed with 1 operand, it has no arity error for N; *)
(* unpacked with another count it has the error "number of inputs          *)
(* inconsistent"; packed with a count other than 1 (N included) it has the *)
(* error "packed with number of inputs not 1"; an arity error makes the    *)
(* run end Failed.                                                         *)
(***************************************************************************)
RepInCalls == {c \in calls : c.fn = "CheckReplicatedIOOp" /\ OpName(c.op) = kRepIn}

RepInArityErrors(c) ==
    {d \in diags : IsArityDiag(d) /\ d.op = c.op
                   /\ d.expected = g.ops[c.md].num_replicas}

C6_ArityRule ==
    \A c \in RepInCalls :
        LET N == g.ops[c.md].num_replicas
            n == Arity(c.op)
            errs == RepInArityErrors(c)
        IN  /\ (~IsPacked(c.op) /\ n = N) => errs = {}
            /\ (IsPacked(c.op) /\ n = 1) => errs = {}
            /\ (~IsPacked(c.op) /\ n # N) =>
                  /\ errs = {ArityDiag(c.op, "number of inputs inconsistent",
                                       "num_replicas", N, n)}
                  /\ pc # "Succeeded"
            /\ (IsPacked(c.op) /\ n # 1) =>
                  /\ errs = {ArityDiag(c.op, "packed with number of inputs not 1",
                                       "num_replicas", N, n)}
                  /\ pc # "Succeeded"

\* A packed node whose operand count equals N (and is not 1) was validated
\* and the run has ended.
C6_Witness ==
    /\ Terminal
    /\ \E c \in RepInCalls :
          /\ IsPacked(c.op)
          /\ Arity(c.op) = g.ops[c.md].num_replicas
          /\ Arity(c.op) # 1

(***************************************************************************)
(* C10.  A replication or partition node is arity-checked only from the    *)
(* cluster-IO check of a plain node that carries a non-empty cluster       *)
(* identifier with a metadata entry and has the node as a direct           *)
(* predecessor or successor, and against the metadata of that neighbour's  *)
(* cluster, whatever cluster the node itself names.  So every arity error  *)
(* is on a node that has such a neighbour and cites that neighbour's       *)
(* count; a node without such a neighbour has no arity error.              *)
(***************************************************************************)
ExpectedCount(x, md) ==
    IF KindOf(x) \in {kRepIn, kRepOut} THEN g.ops[md].num_replicas
    ELSE g.ops[md].num_cores_per_replica

\* The plain neighbours of x whose cluster has a metadata entry.
CheckingNeighbours(x) ==
    {n \in ClusterIds : /\ AttrOf(n) \in DOMAIN metadata_map
                        /\ x \in Producers(n) \cup Users(n)}

C10_ArityOnlyViaNeighbour ==
    /\ \A c \in calls : c.fn = "CheckReplicatedIOOp" =>
          /\ ~IsTpuRegularOp(c.op)
          /\ c.parent[2] \in ClusterIds
          /\ AttrOf(c.parent[2]) \in DOMAIN metadata_map
          /\ c.md = metadata_map[AttrOf(c.parent[2])]
          /\ \/ c.op[2] \in Producers(c.parent[2])
             \/ c.op[2] \in Users(c.parent[2])
    /\ \A d \in diags : IsArityDiag(d) =>
          /\ KindOf(d.op[2]) \in ReplicationKinds
          /\ \E n \in CheckingNeighbours(d.op[2]) :
                d.expected = ExpectedCount(d.op[2], metadata_map[AttrOf(n)])

\* The run ended Succeeded although an unpacked replicated-input node has an
\* operand count that differs from the num_replicas of every metadata op.
C10_Witness ==
    /\ pc = "Succeeded"
    /\ MetaIds # {}
    /\ \E x \in DataIds :
          /\ KindOf(x) = kRepIn
          /\ ~g.ops[x].packed
          /\ Users(x) # {}
          /\ \A m \in MetaIds : g.ops[x].arity # g.ops[m].num_replicas

(***************************************************************************)
(* C7.  For a plain node with cluster identifier C and a plain successor:  *)
(* when the successor check is run on a successor with a different         *)
(* non-empty identifier it emits the mismatch error, and the run ends      *)
(* Failed whenever such a successor exists; run on a successor with no     *)
(* identifier it emits only a warning and returns true: no mismatch error  *)
(* is ever on an op without identifier, and a failed run always has an     *)
(* error diagnostic.  Whether C has a metadata entry plays no part.        *)
(***************************************************************************)
SuccessorCalls == {c \in calls : c.fn = "CheckClusterSuccessors"}

MismatchDiag(s, n) ==
    [sev |-> "error", op |-> s, msg |-> "mismatch clusters tpu_replicate attr",
     parent |-> OpName(n), cluster |-> TpuReplicateAttr(n),
     cluster_succ |-> TpuReplicateAttr(s)]

NonClusterWarning(s, n) ==
    [sev |-> "warning", op |-> s, msg |-> "has successor as non cluster op",
     parent |-> OpName(n), cluster |-> TpuReplicateAttr(n)]

NonClusterIds == {i \in PlainIds : AttrOf(i) = NoAttr}

BoundaryDiags ==
    {d \in ErrorDiags : d.msg \in {"has invalid predecessor op", "has invalid successor op"}}

InputCalls(kinds) == {c \in calls : c.fn = "CheckReplicatedIOOp" /\ OpName(c.op) \in kinds}

BadSuccessors(c) ==
    {s \in Users(c.op[2]) \cap PlainIds : AttrOf(s) # g.ops[c.md].attr}

C4_Original ==
    Terminal =>
        \A c \in InputCalls({kRepIn, kPartIn, kPartInV2}) :
            BadSuccessors(c) # {} => pc = "Failed"

(***************************************************************************)
(* C4 amended.  For a replicated-input node validated against a metadata   *)
(* op, a plain successor that lacks the propagated identifier or carries   *)
(* another value makes the validating check fail and the run end Failed,   *)
(* with an error on the input node (arity) or on such a successor.  The    *)
(* identifiers of the successors of partitioned-input nodes are never      *)
(* checked: every propagation error names a replicated op.                 *)
(***************************************************************************)
IsPropagationDiag(d) == "rep" \in DOMAIN d

C4_Amended ==
    /\ \A c \in InputCalls({kRepIn}) :
          BadSuccessors(c) # {} =>
             /\ IOFailed(c.parent[2]) \in failed
             /\ pc # "Succeeded"
             /\ \E d \in ErrorDiags :
                   \/ IsArityDiag(d) /\ d.op = c.op
                   \/ IsPropagationDiag(d) /\ d.op[2] \in BadSuccessors(c)
                      /\ d.rep = kRepIn /\ d.dir = "successor"
    /\ \A d \in diags : IsPropagationDiag(d) =>
          /\ d.rep \in {kRepIn, kRepOut}
          /\ d.op[2] \in PlainIds
          /\ d.msg = "missing _tpu_replicate attr" <=> AttrOf(d.op[2]) = NoAttr
          /\ d.msg = "invalid _tpu_replicate attr" => AttrOf(d.op[2]) # d.attr

\* A replicated-input node with the right arity whose successor carries
\* another cluster identifier: the propagation error was emitted.
C4_Witness ==
    /\ Terminal
    /\ \E c \in InputCalls({kRepIn}) : \E d \in diags :
          /\ RepInArityErrors(c) = {}
          /\ IsPropagationDiag(d)
          /\ d.msg = "invalid _tpu_replicate attr"
          /\ d.op[2] \in BadSuccessors(c)

(***************************************************************************)
(* The violations among the neighbours of a plain node: every error that   *)
(* the checks on its predecessors and successors state, taken one by one.  *)
(***************************************************************************)
ReplicationViolations(x, md) ==
    LET k == KindOf(x)
        op == OpRef(x)
        N == g.ops[md].num_replicas
        M == g.ops[md].num_cores_per_replica
        attr == g.ops[md].attr
    IN  CASE k = kRepIn ->
               RepInArity(op, N).d
               \cup UNION {CheckTpuReplicateAttr(OpRef(s), attr, k, "successor").d :
                             s \in Users(x) \cap PlainIds}
          [] k = kRepOut ->
               (IF Arity(op) # N
                THEN {ArityDiag(op, "number of outputs inconsistent", "num_replicas",
                                N, Arity(op))}
                ELSE {})
               \cup UNION {CheckTpuReplicateAttr(OpRef(p), attr, k, "predecessor").d :
                             p \in Producers(x) \cap PlainIds}
          [] k = kPartIn -> ValidatePartitionedInput(op, M).d
          [] k = kPartInV2 -> ValidatePartitionedInputV2(op, M).d
          [] k \in {kPartOut, kPartOutV2} -> ValidatePartitionedOutput(op, M).d
          [] OTHER -> {}

AllViolations(n) ==
    IF AttrOf(n) = ""
    THEN {[sev |-> "error", op |-> OpRef(n), msg |-> "empty _tpu_replicate attr"]}
    ELSE IF AttrOf(n) # NoAttr
    THEN (IF AttrOf(n) \in DOMAIN metadata_map
          THEN UNION {ReplicationViolations(x, metadata_map[AttrOf(n)]) :
                        x \in Producers(n) \cup Users(n)}
          ELSE {})
         \cup {MismatchDiag(OpRef(s), OpRef(n)) :
                 s \in {u \in Users(n) \cap ClusterIds : AttrOf(u) # AttrOf(n)}}
    ELSE UNION {CheckNonClusterPredecessors(OpRef(p), OpRef(n)).d : p \in Producers(n)}
         \cup UNION {CheckNonClusterSuccessors(OpRef(s), OpRef(n)).d : s \in Users(n)}

(***************************************************************************)
(* C3 as stated: at the end of a run every violation among the neighbours  *)
(* of every plain node has its error diagnostic.                           *)
(***************************************************************************)
C3_Original == Terminal => \A n \in PlainIds : AllViolations(n) \subseteq diags

(***************************************************************************)
(* C3 amended.  Every plain node gets its cluster-IO check, whatever the   *)
(* checks of other nodes returned; the check of a node returns false       *)
(* exactly when there is a violation among its neighbours, and then at     *)
(* least one of these violations has its error diagnostic (the check       *)
(* returns at the first one it meets); every error of the cluster-IO       *)
(* checks is one of these violations.                                      *)
(***************************************************************************)
TypeConflictDiags ==
    {d \in diags : d.msg = "found invalid op. Can't be both xla and non-xla"}

C3_Amended ==
    /\ \A n \in PlainIds \cap visited :
          /\ IOCall(n) \in calls
          /\ IOFailed(n) \in failed <=> AllViolations(n) # {}
          /\ AllViolations(n) # {} => AllViolations(n) \cap diags # {}
    /\ ErrorDiags \ TypeConflictDiags \subseteq UNION {AllViolations(n) : n \in PlainIds}
    /\ Terminal => visited = Ids

\* A run that ended with a node that has two violations of which one has
\* no diagnostic.
C3_Witness ==
    /\ Terminal
    /\ \E n \in PlainIds :
          /\ Cardinality(AllViolations(n)) >= 2
          /\ AllViolations(n) \cap diags # {}
          /\ ~(AllViolations(n) \subseteq diags)

(***************************************************************************)
(* The reference run: both walks in ascending island order, every          *)
(* neighbour list in ascending order.                                      *)
(***************************************************************************)
RECURSIVE CollectAll(_, _)
CollectAll(ms, mm) ==
    IF ms = <<>> THEN mm
    ELSE CollectAll(Tail(ms), MapPut(mm, g.ops[Head(ms)].attr, Head(ms)))

ReferenceMap == CollectAll(Ascending(MetaIds), <<>>)

ReferenceOps ==
    LET ids == Ascending(Ids)
    IN  Flatten([k \in 1..Len(ids) |->
                   << <<"op", ids[k]>>, <<"yield", ids[k]>>, <<"island", ids[k]>> >>])
        \o [k \in 1..Len(EnclosingOps) |-> <<EnclosingOps[k], 0>>]

ReferenceRun == WalkOps(ReferenceOps, ReferenceMap, Ascending(DataIds))

(***************************************************************************)
(* C5 as stated: whatever the enumeration orders of a run, it ends with    *)
(* the verdict and the set of diagnostics of the reference run, also when  *)
(* two metadata ops declare one cluster identifier with different counts.  *)
(***************************************************************************)
C5_Original ==
    Terminal => /\ success = ReferenceRun.ok
                /\ diags = ReferenceRun.d

(***************************************************************************)
(* C5 amended.  When no two metadata ops declare one cluster identifier    *)
(* with different contents, every run ends with the verdict of the         *)
(* reference run and the same checks have returned false, whatever the     *)
(* enumeration orders; the set of diagnostics is not claimed to be the     *)
(* same.                                                                   *)
(***************************************************************************)
Content(m) == [g.ops[m] EXCEPT !.operands = {}]

NoConflictingMetadata ==
    \A m, n \in MetaIds : g.ops[m].attr = g.ops[n].attr => Content(m) = Content(n)

C5_Amended ==
    (Terminal /\ NoConflictingMetadata) =>
        /\ success = ReferenceRun.ok
        /\ (pc = "Succeeded") = ReferenceRun.ok
        /\ failed = ReferenceRun.f

\* A run without conflicting metadata that ended with the reference verdict
\* and another set of diagnostics.
C5_Witness ==
    /\ Terminal
    /\ NoConflictingMetadata
    /\ success = ReferenceRun.ok
    /\ diags # ReferenceRun.d

(***************************************************************************)
(* C1 as stated: a node whose kind is in the intersection set and that     *)
(* must be and must not be compiled for the accelerator makes the run end  *)
(* Failed with the type-conflict error on that node.                       *)
(***************************************************************************)
TypeConflictDiag(op) ==
    [sev |-> "error", op |-> op, msg |-> "found invalid op. Can't be both xla and non-xla"]

C1_Claim ==
    Terminal =>
        \A i \in DataIds :
            (/\ KindOf(i) \in IntersectionOps_set
             /\ IsMustBeXlaOp(OpRef(i), metadata_map)
             /\ IsMustNotBeXlaOp(OpRef(i)))
            => (pc = "Failed" /\ TypeConflictDiag(OpRef(i)) \in diags)

(***************************************************************************)
(* C8 as stated: the classifier is true exactly for the kinds of the       *)
(* intersection set and the unregistered kinds, and the type-conflict      *)
(* check has been run, at the end, on exactly the ops of these kinds.      *)
(***************************************************************************)
AllOps ==
    {<<w, i>> : w \in {"op", "yield", "island"}, i \in Ids}
    \cup {<<EnclosingOps[k], 0>> : k \in 1..Len(EnclosingOps)}

IsIntersectionCandidate(op) ==
    OpName(op) \in IntersectionOps_set \/ OpName(op) \notin RegisteredKinds

TypeCall(op) ==
    [fn |-> "ValidateIntersectionXlaNonXlaOps", op |-> op, parent |-> op, md |-> 0]

C8_Claim ==
    Terminal =>
        \A op \in AllOps :
            /\ IsIntersectionXlaNonXlaOps(op) <=> IsIntersectionCandidate(op)
            /\ TypeCall(op) \in calls <=> IsIntersectionCandidate(op)

====
